---- MODULE Spec2Model ----
(***************************************************************************)
(* A model of gregoriB/mandelbrot-rust (src/main.rs): the pixel-to-point   *)
(* mapping, the escape-time iteration, the single-threaded render loop,    *)
(* the band partition and the scoped worker threads of                     *)
(* render_multi_threaded, and parse_pair / parse_complex.                  *)
(*                                                                         *)
(* f64 arithmetic is modelled as binary floating point with round to       *)
(* nearest, ties to even, on a mantissa of Precision bits (f64 has 53) and *)
(* an unbounded exponent: every +, -, *, / and every usize -> f64          *)
(* conversion of the source rounds exactly once, as IEEE 754 does.  A      *)
(* float is the pair <<m, e>> that stands for m * 2^e, with m = 0 (and     *)
(* e = 0) or 2^(Precision-1) <= |m| < 2^Precision.  Infinities and NaN    *)
(* never arise: the only divisors are a width and a height of at least 1,  *)
(* and the inputs are far from the exponent range of f64.                  *)
(***************************************************************************)
EXTENDS Integers, Sequences, FiniteSets, TLC

\* ------------------------------------------------------------------ bounds

\* Mantissa bits of the modelled floating point format.
Precision == 8
\* Largest image width and height, and largest worker count, drawn as inputs.
MaxWidth == 2
MaxHeight == 3
MaxThreads == 3
\* The buffer length given to a render call lies within Slack of width*height.
Slack == 1
\* The points given to escape_time: the quarters from -GridMax/4 to GridMax/4
\* on both axes; and its iteration limits: 1..MaxLimit and the limit of render.
GridMax == 12
MaxLimit == 3
\* The longest string, in characters, given to parse_pair and parse_complex.
MaxStrLen == 3

\* ------------------------------------------------------- integer helpers

Abs(n) == IF n < 0 THEN -n ELSE n

Sgn(n) == IF n < 0 THEN -1 ELSE IF n > 0 THEN 1 ELSE 0

Min(a, b) == IF a <= b THEN a ELSE b

Max(a, b) == IF a >= b THEN a ELSE b

Pow2Table ==
  << 1, 2, 4, 8, 16, 32, 64, 128, 256, 512, 1024, 2048, 4096, 8192, 16384,
     32768, 65536, 131072, 262144, 524288, 1048576, 2097152, 4194304,
     8388608, 16777216, 33554432, 67108864, 134217728, 268435456,
     536870912, 1073741824 >>

Pow2(n) == Pow2Table[n + 1]

NibbleLen == << 0, 1, 2, 2, 3, 3, 3, 3, 4, 4, 4, 4, 4, 4, 4, 4 >>

\* The number of bits of n >= 0: the least k with n < 2^k.
BitLen(n) ==
  IF n < 16 THEN NibbleLen[n + 1]
  ELSE IF n < 256 THEN 4 + NibbleLen[(n \div 16) + 1]
  ELSE IF n < 4096 THEN 8 + NibbleLen[(n \div 256) + 1]
  ELSE IF n < 65536 THEN 12 + NibbleLen[(n \div 4096) + 1]
  ELSE IF n < 1048576 THEN 16 + NibbleLen[(n \div 65536) + 1]
  ELSE IF n < 16777216 THEN 20 + NibbleLen[(n \div 1048576) + 1]
  ELSE IF n < 268435456 THEN 24 + NibbleLen[(n \div 16777216) + 1]
  ELSE 28 + NibbleLen[(n \div 268435456) + 1]

\* ------------------------------------------------------ f64 arithmetic

FZero == << 0, 0 >>

\* The float nearest to m * 2^e, ties to the even mantissa.
FRound(m, e) ==
  LET a == Abs(m)
      n == BitLen(a)
  IN  IF a = 0 THEN FZero
      ELSE IF n <= Precision
        THEN << m * Pow2(Precision - n), e - (Precision - n) >>
      ELSE LET s == n - Precision
               q == a \div Pow2(s)
               r == a % Pow2(s)
               half == Pow2(s - 1)
               up == r > half \/ (r = half /\ q % 2 = 1)
               q2 == IF up THEN q + 1 ELSE q
           IN  IF q2 = Pow2(Precision)
                 THEN << Sgn(m) * Pow2(Precision - 1), e + s + 1 >>
                 ELSE << Sgn(m) * q2, e + s >>

\* usize as f64
FromInt(n) == FRound(n, 0)

FNeg(x) == << -x[1], x[2] >>

\* x + y.  Operands more than Precision + 2 binary places apart: the small
\* one only decides the rounding direction, as a sticky bit.
FAdd(x, y) ==
  IF x[1] = 0 THEN y
  ELSE IF y[1] = 0 THEN x
  ELSE LET hi == IF x[2] >= y[2] THEN x ELSE y
           lo == IF x[2] >= y[2] THEN y ELSE x
           d == hi[2] - lo[2]
       IN  IF d > Precision + 2
             THEN FRound(hi[1] * 8 + Sgn(lo[1]), hi[2] - 3)
             ELSE FRound(hi[1] * Pow2(d) + lo[1], lo[2])

FSub(x, y) == FAdd(x, FNeg(y))

FMul(x, y) == FRound(x[1] * y[1], x[2] + y[2])

\* x / y for y # 0: the quotient to Precision + 2 bits and a sticky bit.
FDiv(x, y) ==
  IF x[1] = 0 THEN FZero
  ELSE LET num == Abs(x[1]) * Pow2(Precision + 2)
           q == num \div Abs(y[1])
           r == num % Abs(y[1])
           sticky == IF r = 0 THEN 0 ELSE 1
       IN  FRound(Sgn(x[1]) * Sgn(y[1]) * (2 * q + sticky),
                  x[2] - y[2] - (Precision + 2) - 1)

\* x > y
FGt(x, y) == FSub(x, y)[1] > 0

\* The float literals of the source, and a float from a count of halves.
Half(k) == FRound(k, -1)

Four == FromInt(4)

\* ------------------------------------------------------------ Complex<f64>

Complex(re, im) == [re |-> re, im |-> im]

\* num::Complex::norm_sqr: re * re + im * im
NormSqr(z) == FAdd(FMul(z.re, z.re), FMul(z.im, z.im))

\* num::Complex multiplication: (a.re*b.re - a.im*b.im, a.re*b.im + a.im*b.re)
CMul(a, b) ==
  Complex(FSub(FMul(a.re, b.re), FMul(a.im, b.im)),
          FAdd(FMul(a.re, b.im), FMul(a.im, b.re)))

CAdd(a, b) == Complex(FAdd(a.re, b.re), FAdd(a.im, b.im))

\* ------------------------------------------------------------ escape_time

None == [some |-> FALSE]

Some(v) == [some |-> TRUE, val |-> v]

\* The state of the loop of escape_time: the next iteration i, the value z,
\* and the value returned from inside the loop, if any.
LoopState(i, z, ret) == [i |-> i, z |-> z, ret |-> ret]

\* A faulty EscapeIter: z is updated before it is tested.
EscapeIterTestAfter(c, s) ==
  LET z2 == CAdd(CMul(s.z, s.z), c)
  IN  IF s.ret.some THEN s
      ELSE IF FGt(NormSqr(z2), Four) THEN LoopState(s.i, z2, Some(s.i))
      ELSE LoopState(s.i + 1, z2, None)

\* One iteration of the loop: return Some(i) when norm_sqr(z) > 4.0, else
\* z = z * z + c.
EscapeIter(c, s) ==
  IF s.ret.some THEN s
  ELSE IF FGt(NormSqr(s.z), Four) THEN LoopState(s.i, s.z, Some(s.i))
  ELSE LoopState(s.i + 1, CAdd(CMul(s.z, s.z), c), None)

\* n successive iterations of the loop from the state s.
RECURSIVE EscapeLoop(_, _, _)
EscapeLoop(c, s, n) ==
  IF n = 0 \/ s.ret.some THEN s
  ELSE IF n = 1 THEN EscapeIter(c, s)
  ELSE EscapeLoop(c, EscapeLoop(c, s, n \div 2), n - n \div 2)

\* for i in 0..limit { ... } None
escape_time(c, limit) ==
  EscapeLoop(c, LoopState(0, Complex(FZero, FZero), None), limit).ret

\* --------------------------------------------------------- pixel_to_point

\* A faulty pixel_to_point: the imaginary part grows with the row.
pixel_to_point_up(bounds, pixel, top_left, bottom_right) ==
  LET width == FSub(bottom_right.re, top_left.re)
      heigth == FSub(top_left.im, bottom_right.im)
  IN  Complex(
        FAdd(top_left.re,
             FDiv(FMul(FromInt(pixel[1]), width), FromInt(bounds[1]))),
        FAdd(top_left.im,
             FDiv(FMul(FromInt(pixel[2]), heigth), FromInt(bounds[2]))))

pixel_to_point(bounds, pixel, top_left, bottom_right) ==
  LET width == FSub(bottom_right.re, top_left.re)
      heigth == FSub(top_left.im, bottom_right.im)
  IN  Complex(
        FAdd(top_left.re,
             FDiv(FMul(FromInt(pixel[1]), width), FromInt(bounds[1]))),
        FSub(top_left.im,
             FDiv(FMul(FromInt(pixel[2]), heigth), FromInt(bounds[2]))))

\* ------------------------------------------------------------------ render

\* A faulty PixelByte: the count itself is stored.
PixelByteCount(et) == IF et.some THEN et.val % 256 ELSE 0

\* The byte render stores for an escape_time result: None => 0,
\* Some(count) => 255 - count as u8 (the cast keeps the low 8 bits).
PixelByte(et) == IF et.some THEN 255 - (et.val % 256) ELSE 0

\* The iteration limit render passes to escape_time.
EscapeLimit == 255

\* The index render writes for (column, row): row * bounds.0 + column
PixelIndex(bounds, column, row) == row * bounds[1] + column

\* The assertion at the head of render: pixels.len() == bounds.0 * bounds.1
RenderAssert(len, bounds) == len = bounds[1] * bounds[2]

\* One call of render on the slice [start, start + len) of the buffer: its
\* arguments, the number of loop iterations done (next), the last
\* escape_time result, and where the call stands.
RenderCall(start, len, bounds, top_left, bottom_right) ==
  [start |-> start, len |-> len, bounds |-> bounds,
   top_left |-> top_left, bottom_right |-> bottom_right,
   next |-> 0, esc |-> None, st |-> "called"]

\* --------------------------------------------------- render_multi_threaded

\* A faulty rows_per_band: the ceiling of height / threads.
rows_per_band_ceil(bounds, threads) == (bounds[2] + threads - 1) \div threads

rows_per_band(bounds, threads) == bounds[2] \div threads + 1

\* A faulty ChunkSize: the width is left out.
ChunkSizeRows(bounds, threads) == rows_per_band(bounds, threads)

\* The chunk length handed to chunks_mut: rows_per_band * bounds.0
ChunkSize(bounds, threads) == rows_per_band(bounds, threads) * bounds[1]

\* slice::chunks_mut(size) on a slice of len elements, size > 0: the chunks
\* in order, each [start, start + len), all of size elements but the last.
ChunksMut(len, size) ==
  [i \in 1..((len + size - 1) \div size) |->
     [start |-> (i - 1) * size, len |-> Min(size, len - (i - 1) * size)]]

\* A faulty BandTop: the + 1 of rows_per_band is left out.
BandTopFloor(bounds, threads, i) == (bounds[2] \div threads) * i

\* The first row of band i (counted from 0): rows_per_band * i
BandTop(bounds, threads, i) == rows_per_band(bounds, threads) * i

\* The height of a band: band.len() / bounds.0
BandHeight(bounds, bandLen) == bandLen \div bounds[1]

\* The render call spawned for band i (counted from 0) over the chunk.
BandCall(bounds, threads, top_left, bottom_right, i, chunk) ==
  LET top == BandTop(bounds, threads, i)
      height == BandHeight(bounds, chunk.len)
      band_bounds == << bounds[1], height >>
      band_top_left == pixel_to_point(bounds, << 0, top >>, top_left, bottom_right)
      band_bottom_right ==
        pixel_to_point(bounds, << bounds[1], top + height >>, top_left, bottom_right)
  IN  RenderCall(chunk.start, chunk.len, band_bounds, band_top_left, band_bottom_right)

\* ------------------------------------------------------------------ inputs

\* The viewports drawn as inputs: top left and bottom right corner.
Viewports ==
  { [top_left |-> Complex(Half(-3), Half(3)), bottom_right |-> Complex(Half(3), Half(2))],
    [top_left |-> Complex(Half(0), Half(0)), bottom_right |-> Complex(Half(8), Half(-8))] }

BufferLengths(w, h) == { n \in (w * h - Slack)..(w * h + Slack) : n >= 0 }

\* ------------------------------------------------------------------- state

VARIABLES
  pc,        \* where the caller of the render strategy stands
  strategy,  \* "st": render_single_threaded, "mt": render_multi_threaded
  bounds,    \* (width, height)
  viewport,  \* [top_left, bottom_right]
  threads,   \* num_cpus::get(), 0 before it is read
  pixels,    \* the buffer, indexed from 1
  calls,     \* the render calls in progress: one, or one for each band
  writers,   \* for each buffer index, the calls that wrote it, in order
  fn         \* a call of one of the pure functions: arguments and result

vars == << pc, strategy, bounds, viewport, threads, pixels, calls, writers, fn >>

renderVars == << pc, strategy, bounds, viewport, threads, pixels, calls, writers >>

\* No pure function is being called.
NoCall == [op |-> "none"]

Init ==
  /\ pc = "start"
  /\ strategy \in {"st", "mt"}
  /\ \E w \in 1..MaxWidth, h \in 1..MaxHeight :
       /\ bounds = << w, h >>
       /\ \E n \in BufferLengths(w, h) :
            /\ pixels = [k \in 1..n |-> 0]
            /\ writers = [k \in 1..n |-> << >>]
  /\ viewport \in Viewports
  /\ threads = 0
  /\ calls = << >>
  /\ fn = NoCall

\* render_single_threaded: one render call over the whole buffer.
CallSingle ==
  /\ pc = "start"
  /\ strategy = "st"
  /\ calls' = << RenderCall(0, Len(pixels), bounds,
                            viewport.top_left, viewport.bottom_right) >>
  /\ pc' = "single"
  /\ UNCHANGED << strategy, bounds, viewport, threads, pixels, writers, fn >>

\* render_multi_threaded up to the end of the spawning loop: the worker
\* count is read, the buffer is cut into bands and one render call is
\* spawned for each.  chunks_mut panics on a chunk size of 0.
CallMulti ==
  /\ pc = "start"
  /\ strategy = "mt"
  /\ \E t \in 1..MaxThreads :
       /\ threads' = t
       /\ IF ChunkSize(bounds, t) = 0
            THEN /\ pc' = "panicked"
                 /\ calls' = calls
            ELSE /\ pc' = "scope"
                 /\ calls' =
                      LET bands == ChunksMut(Len(pixels), ChunkSize(bounds, t))
                      IN  [i \in 1..Len(bands) |->
                             BandCall(bounds, t, viewport.top_left,
                                      viewport.bottom_right, i - 1, bands[i])]
  /\ UNCHANGED << strategy, bounds, viewport, pixels, writers, fn >>

\* The head of render in call i: the assertion on the slice length.  With
\* no pixel to render the call is over.
Enter(i) ==
  /\ calls[i].st = "called"
  /\ calls' = [calls EXCEPT ![i].st =
       IF ~RenderAssert(calls[i].len, calls[i].bounds) THEN "panicked"
       ELSE IF calls[i].len = 0 THEN "done"
       ELSE "running"]
  /\ UNCHANGED << pc, strategy, bounds, viewport, threads, pixels, writers, fn >>

\* One iteration of the loops of render in call i: the pixel (column, row)
\* is mapped, classified and stored.  An index outside the slice panics.
Step(i) ==
  /\ calls[i].st = "running"
  /\ LET c == calls[i]
         row == c.next \div c.bounds[1]
         column == c.next % c.bounds[1]
         point == pixel_to_point(c.bounds, << column, row >>,
                                 c.top_left, c.bottom_right)
         et == escape_time(point, EscapeLimit)
         k == PixelIndex(c.bounds, column, row)
     IN  IF k >= c.len
           THEN /\ calls' = [calls EXCEPT ![i].st = "panicked"]
                /\ UNCHANGED << pixels, writers >>
           ELSE /\ pixels' = [pixels EXCEPT ![c.start + k + 1] = PixelByte(et)]
                /\ writers' = [writers EXCEPT ![c.start + k + 1] = Append(@, i)]
                /\ calls' = [calls EXCEPT
                     ![i].next = c.next + 1,
                     ![i].esc = et,
                     ![i].st = IF c.next + 1 = c.bounds[1] * c.bounds[2]
                                 THEN "done" ELSE "running"]
  /\ UNCHANGED << pc, strategy, bounds, viewport, threads, fn >>

Worker ==
  /\ pc \in {"single", "scope"}
  /\ \E i \in 1..Len(calls) : Enter(i) \/ Step(i)

\* A faulty AllJoined: the scope does not wait for its threads.
AllJoinedNoWait == TRUE

\* Every spawned render call is over: what the scope waits for.
AllJoined == \A i \in 1..Len(calls) : calls[i].st \in {"done", "panicked"}

\* The end of thread::scope: all workers are joined; it panics when one did.
Join ==
  /\ pc = "scope"
  /\ AllJoined
  /\ pc' = IF \E i \in 1..Len(calls) : calls[i].st = "panicked"
             THEN "panicked" ELSE "returned"
  /\ UNCHANGED << strategy, bounds, viewport, threads, pixels, calls, writers, fn >>

\* The end of render_single_threaded: render returned, or its panic unwinds.
ReturnSingle ==
  /\ pc = "single"
  /\ calls[1].st \in {"done", "panicked"}
  /\ pc' = IF calls[1].st = "panicked" THEN "panicked" ELSE "returned"
  /\ UNCHANGED << strategy, bounds, viewport, threads, pixels, calls, writers, fn >>

Next == CallSingle \/ CallMulti \/ Worker \/ Join \/ ReturnSingle

Spec == Init /\ [][Next]_vars

\* ------------------------------------------- escape_time on its own

\* No render call is in progress.
NoRender ==
  /\ pc = "idle"
  /\ strategy = "st"
  /\ bounds = << 1, 1 >>
  /\ viewport \in { v \in Viewports : v.top_left.re = FZero }
  /\ threads = 0
  /\ pixels = << >>
  /\ calls = << >>
  /\ writers = << >>

Quarter(k) == FRound(k, -2)

\* The grid, and a point just outside the circle of radius 2 whose norm_sqr
\* rounds to 4.0: 2 + i/32.
EscapePoints ==
  { Complex(Quarter(a), Quarter(b)) : a, b \in (-GridMax)..GridMax }
    \cup { Complex(FromInt(2), FRound(1, -5)) }

EscapeLimits == (1..MaxLimit) \cup {EscapeLimit}

InitEscape ==
  /\ NoRender
  /\ \E c \in EscapePoints, limit \in EscapeLimits :
       fn = [op |-> "escape_time", c |-> c, limit |-> limit, done |-> FALSE]

\* The match of render on escape_time(point, limit): the result of
\* escape_time and the byte stored for it.
Classify ==
  /\ fn.op = "escape_time"
  /\ ~fn.done
  /\ LET et == escape_time(fn.c, fn.limit)
     IN  fn' = [op |-> "escape_time", c |-> fn.c, limit |-> fn.limit,
                done |-> TRUE, ret |-> et, byte |-> PixelByte(et)]
  /\ UNCHANGED renderVars

NextEscape == Classify

SpecEscape == InitEscape /\ [][NextEscape]_vars

\* ----------------------------------------- pixel_to_point on its own

\* The resolution and the pixel of test_pixel_to_point.
TestBounds == << 100, 200 >>

TestPixel == << 25, 175 >>

\* The float nearest to k / 10.
Tenth(k) == FDiv(FromInt(k), FromInt(10))

TenthValues == {-20, -12, -10, -4, 1, 3, 10}

\* Viewports with corners a/10 + (c/10)i and c/10 + (a/10)i, a < c; the one
\* of test_pixel_to_point, -1+1i .. 1-1i, is among them.
PointViewports ==
  { [top_left |-> Complex(Tenth(p[1]), Tenth(p[2])),
     bottom_right |-> Complex(Tenth(p[2]), Tenth(p[1]))] :
       p \in { q \in TenthValues \X TenthValues : q[1] < q[2] } }

\* Resolutions and pixels, the corners included: 0 <= column <= width and
\* 0 <= row <= height.
PointArgs ==
  { << << w, h >>, << column, row >> >> :
      w \in 1..MaxWidth, h \in 1..MaxHeight,
      column \in 0..MaxWidth, row \in 0..MaxHeight }

InitPoint ==
  /\ NoRender
  /\ \E a \in { b \in PointArgs : b[2][1] <= b[1][1] /\ b[2][2] <= b[1][2] }
                \cup { << TestBounds, TestPixel >>, << TestBounds, << 0, 0 >> >>,
                       << TestBounds, TestBounds >> },
        v \in PointViewports :
       fn = [op |-> "pixel_to_point", bounds |-> a[1], pixel |-> a[2],
             top_left |-> v.top_left, bottom_right |-> v.bottom_right,
             done |-> FALSE]

MapPixel ==
  /\ fn.op = "pixel_to_point"
  /\ ~fn.done
  /\ fn' = [fn EXCEPT !.done = TRUE] @@
           [ret |-> pixel_to_point(fn.bounds, fn.pixel, fn.top_left, fn.bottom_right)]
  /\ UNCHANGED renderVars

NextPoint == MapPixel

SpecPoint == InitPoint /\ [][NextPoint]_vars

\* --------------------------------------------- parse_pair, parse_complex

\* A char is its Unicode scalar value; a &str is the sequence of the bytes
\* of its UTF-8 encoding.  The characters of the model's strings:
\* '1', '2', ',', 'x', '-' and 'é' (U+00E9, two bytes in UTF-8).
Alphabet == {49, 50, 44, 120, 45, 233}

Separators == {44, 120, 233}

\* char::encode_utf8, for scalar values below U+0800.
Utf8(ch) ==
  IF ch < 128 THEN << ch >>
  ELSE << 192 + (ch \div 64), 128 + (ch % 64) >>

RECURSIVE Encode(_)
Encode(chars) ==
  IF chars = << >> THEN << >>
  ELSE Utf8(Head(chars)) \o Encode(Tail(chars))

Panic == [panic |-> TRUE]

\* str::find(char): the byte index of the first occurrence, counted from 0.
Find(s, ch) ==
  LET pat == Utf8(ch)
      hits == { i \in 0..(Len(s) - Len(pat)) : SubSeq(s, i + 1, i + Len(pat)) = pat }
  IN  IF hits = {} THEN None
      ELSE Some(CHOOSE i \in hits : \A j \in hits : i <= j)

\* str::is_char_boundary: the start, the end, or no continuation byte.
IsCharBoundary(s, i) ==
  \/ i = 0
  \/ i = Len(s)
  \/ i < Len(s) /\ s[i + 1] \notin 128..191

IsDigits(s) == s # << >> /\ \A k \in 1..Len(s) : s[k] \in 48..57

RECURSIVE Decimal(_)
Decimal(s) ==
  IF s = << >> THEN 0 ELSE 10 * Decimal(SubSeq(s, 1, Len(s) - 1)) + (s[Len(s)] - 48)

Ok(v) == [ok |-> TRUE, val |-> v]

Err == [ok |-> FALSE]

\* T::from_str for the strings of the model, short enough not to overflow:
\* an optional sign and at least one digit.  T is "i32" or "f64", and an
\* f64 is the float nearest to the integer.
FromStr(T, s) ==
  LET signed == s # << >> /\ s[1] \in {43, 45}
      digits == IF signed THEN Tail(s) ELSE s
      n == IF signed /\ s[1] = 45 THEN -Decimal(digits) ELSE Decimal(digits)
  IN  IF ~IsDigits(digits) THEN Err
      ELSE IF T = "f64" THEN Ok(FromInt(n))
      ELSE Ok(n)

\* A faulty AfterSeparator: the text after the separator starts at the
\* separator.
AfterSeparatorAt(index) == index

\* The byte index where the text after the separator starts: index + 1
AfterSeparator(index) == index + 1

\* parse_pair::<T>(s, separator): Some((l, r)), None, or the panic of
\* &s[index + 1..] when index + 1 is not a char boundary.
parse_pair(T, s, separator) ==
  LET found == Find(s, separator)
  IN  IF ~found.some THEN None
      ELSE LET index == found.val
               from == AfterSeparator(index)
           IN  IF ~IsCharBoundary(s, from) THEN Panic
               ELSE LET l == FromStr(T, SubSeq(s, 1, index))
                        r == FromStr(T, SubSeq(s, from + 1, Len(s)))
                    IN  IF l.ok /\ r.ok THEN Some(<< l.val, r.val >>) ELSE None

parse_complex(s) ==
  LET pair == parse_pair("f64", s, 44)
  IN  IF pair = Panic THEN Panic
      ELSE IF pair.some THEN Some(Complex(pair.val[1], pair.val[2]))
      ELSE None

\* The strings of at most n characters over the alphabet.
RECURSIVE Strings(_)
Strings(n) ==
  IF n = 0 THEN { << >> }
  ELSE LET shorter == Strings(n - 1)
       IN  shorter \cup { Append(t, ch) : t \in shorter, ch \in Alphabet }

InitParse ==
  /\ NoRender
  /\ \E chars \in Strings(MaxStrLen) :
       \/ \E separator \in Separators :
            fn = [op |-> "parse_pair", chars |-> chars, separator |-> separator,
                  done |-> FALSE]
       \/ fn = [op |-> "parse_complex", chars |-> chars, done |-> FALSE]

ParsePair ==
  /\ fn.op = "parse_pair"
  /\ ~fn.done
  /\ fn' = [fn EXCEPT !.done = TRUE] @@
           [ret |-> parse_pair("i32", Encode(fn.chars), fn.separator)]
  /\ UNCHANGED renderVars

ParseComplex ==
  /\ fn.op = "parse_complex"
  /\ ~fn.done
  /\ fn' = [fn EXCEPT !.done = TRUE] @@ [ret |-> parse_complex(Encode(fn.chars))]
  /\ UNCHANGED renderVars

NextParse == ParsePair \/ ParseComplex

SpecParse == InitParse /\ [][NextParse]_vars

\* ---------------------------------------------------------------- claims

\* The buffer a render call that runs to its end leaves behind.
Rendered(len, bnds, top_left, bottom_right) ==
  [k \in 1..len |->
     PixelByte(escape_time(
       pixel_to_point(bnds, << (k - 1) % bnds[1], (k - 1) \div bnds[1] >>,
                      top_left, bottom_right),
       EscapeLimit))]

\* render_multi_threaded was called on a buffer of width * height bytes and
\* has spawned its bands.
MultiCalled ==
  /\ strategy = "mt"
  /\ pc \in {"scope", "returned", "panicked"}
  /\ Len(pixels) = bounds[1] * bounds[2]

\* The rows of band i (counted from 1): from its top, its height many.
BandRows(i) ==
  LET top == BandTop(bounds, threads, i - 1)
  IN  top..(top + calls[i].bounds[2] - 1)

Range(f) == { f[k] : k \in DOMAIN f }

\* C1: single-threaded and multi-threaded rendering leave byte-for-byte
\* identical buffers, for every worker count from 1 up to height.
C1_SameBuffer ==
  (MultiCalled /\ pc = "returned" /\ threads <= bounds[2])
    => pixels = Rendered(Len(pixels), bounds, viewport.top_left, viewport.bottom_right)

\* C2: the row ranges of the bands are pairwise disjoint, their union is
\* exactly [0, height), and there are at most worker count many bands.
C2_ExactCover ==
  MultiCalled =>
    /\ Len(calls) <= threads
    /\ \A i, j \in 1..Len(calls) : i # j => BandRows(i) \cap BandRows(j) = {}
    /\ UNION { BandRows(i) : i \in 1..Len(calls) } = 0..(bounds[2] - 1)

C2_Witness ==
  /\ MultiCalled
  /\ Len(calls) = 2
  /\ threads = 3
  /\ bounds[2] = 3

\* C3: no buffer index is ever written by two different workers, and
\* render_multi_threaded returns only after every worker is over, with every
\* index of the buffer written exactly once.
C3_WrittenOnce ==
  MultiCalled =>
    /\ \A k \in 1..Len(pixels) : Cardinality(Range(writers[k])) <= 1
    /\ pc = "returned" =>
         /\ \A i \in 1..Len(calls) : calls[i].st = "done"
         /\ \A k \in 1..Len(pixels) : Len(writers[k]) = 1

C3_Witness ==
  /\ MultiCalled
  /\ pc = "returned"
  /\ Len(calls) >= 2
  /\ \E k \in 1..Len(pixels) : writers[k] = << 1 >>
  /\ \E k \in 1..Len(pixels) : writers[k] = << 2 >>

\* C4 as stated, for worker counts up to the height: worker count many bands
\* of ceil(height / worker count) rows, the last one with the remaining rows
\* (at least 1, at most that many).
C4_CeilBands ==
  (MultiCalled /\ threads <= bounds[2]) =>
    LET ceil == (bounds[2] + threads - 1) \div threads
    IN  /\ Len(calls) = threads
        /\ \A i \in 1..Len(calls) :
             IF i < Len(calls) THEN calls[i].bounds[2] = ceil
             ELSE calls[i].bounds[2] \in 1..ceil

\* C4 amended: with r = floor(height / worker count) + 1, there are
\* ceil(height / r) bands, at most worker count many; every band but the
\* last has r rows and the last has the remaining rows, at least 1 and at
\* most r; r is ceil(height / worker count) exactly when the worker count
\* does not divide the height, and one more when it does.
C4_FloorPlusOneBands ==
  MultiCalled =>
    LET r == (bounds[2] \div threads) + 1
        ceil == (bounds[2] + threads - 1) \div threads
        n == Len(calls)
    IN  /\ n = (bounds[2] + r - 1) \div r
        /\ n <= threads
        /\ \A i \in 1..n :
             IF i < n THEN calls[i].bounds[2] = r
             ELSE calls[i].bounds[2] = bounds[2] - (n - 1) * r
                  /\ calls[i].bounds[2] \in 1..r
        /\ r = (IF bounds[2] % threads = 0 THEN ceil + 1 ELSE ceil)

C4_Witness ==
  /\ MultiCalled
  /\ bounds[2] = 2
  /\ threads = 2
  /\ Len(calls) = 1
  /\ calls[1].bounds[2] = 2

\* C6: a render call on a buffer whose length differs from width * height
\* panics instead of returning.
C6_MismatchPanics ==
  Len(pixels) # bounds[1] * bounds[2] => pc # "returned"

\* C10: every band slice has a length that is a positive multiple of the
\* width, so the assertion of render holds in every worker and none panics.
C10_BandsPassAssert ==
  MultiCalled =>
    /\ \A i \in 1..Len(calls) :
         /\ calls[i].len > 0
         /\ calls[i].len % bounds[1] = 0
         /\ calls[i].st # "panicked"
    /\ pc # "panicked"

C10_Witness ==
  /\ MultiCalled
  /\ bounds[1] = 2
  /\ Len(calls) = 2
  /\ \A i \in 1..Len(calls) : calls[i].st = "running"

PointDone == fn.op = "pixel_to_point" /\ fn.done

\* The integer n with x = n * 2^e0, for a float x that is a multiple of 2^e0.
Units(x, e0) == IF x[1] = 0 THEN 0 ELSE x[1] * Pow2(x[2] - e0)

MinExp(S) == CHOOSE e \in { x[2] : x \in S } : \A x \in S : e <= x[2]

\* got is lo + k * (hi - lo) / n in exact arithmetic.
ExactAffine(got, lo, hi, k, n) ==
  LET e0 == MinExp({got, lo, hi})
  IN  Units(got, e0) * n = Units(lo, e0) * n + k * (Units(hi, e0) - Units(lo, e0))

\* got is within 2^(3 - Precision) * max(|lo|, |hi|) of lo + k * (hi - lo) / n.
NearAffine(got, lo, hi, k, n) ==
  LET e0 == MinExp({got, lo, hi})
      G == Units(got, e0)
      L == Units(lo, e0)
      H == Units(hi, e0)
  IN  Abs(G * n - (L * n + k * (H - L))) * Pow2(Precision - 3)
        <= n * Max(Abs(L), Abs(H))

\* C8 as stated, at the far corner: pixel (width, height) maps to
\* bottom_right.
C8_CornerExact ==
  (PointDone /\ fn.pixel = fn.bounds) => fn.ret = fn.bottom_right

\* C8 amended: pixel (0,0) maps to top_left and the scenario of the test maps
\* to -0.5-0.75i, both exactly; for every pixel, the corner (width, height)
\* included, each coordinate is within 2^(3 - Precision) times the larger
\* corner magnitude of top_left.re + column * (bottom_right.re -
\* top_left.re) / width and top_left.im - row * (top_left.im -
\* bottom_right.im) / height.
C8_AffineWithinRounding ==
  PointDone =>
    /\ fn.pixel = << 0, 0 >> => fn.ret = fn.top_left
    /\ ( /\ fn.bounds = TestBounds
         /\ fn.pixel = TestPixel
         /\ fn.top_left = Complex(FromInt(-1), FromInt(1))
         /\ fn.bottom_right = Complex(FromInt(1), FromInt(-1)) )
         => fn.ret = Complex(Half(-1), Quarter(-3))
    /\ NearAffine(fn.ret.re, fn.top_left.re, fn.bottom_right.re,
                  fn.pixel[1], fn.bounds[1])
    /\ NearAffine(fn.ret.im, fn.top_left.im, fn.bottom_right.im,
                  fn.pixel[2], fn.bounds[2])

C8_Witness ==
  /\ PointDone
  /\ fn.bounds = TestBounds
  /\ fn.pixel = TestPixel
  /\ fn.top_left = Complex(FromInt(-1), FromInt(1))
  /\ fn.bottom_right = Complex(FromInt(1), FromInt(-1))
  /\ fn.ret = Complex(Half(-1), Quarter(-3))

\* A pixel whose mapped point is not the exact affine value: the rounding
\* the amended C8 allows for does happen.
PointRounded ==
  /\ PointDone
  /\ ~ExactAffine(fn.ret.re, fn.top_left.re, fn.bottom_right.re,
                  fn.pixel[1], fn.bounds[1])

\* |c| > 2 in exact arithmetic: re^2 + im^2 > 4, in units of 2^e0.
ExactNormGt4(c) ==
  LET e0 == Min(Min(c.re[2], c.im[2]), 0)
      a == c.re[1] * Pow2(c.re[2] - e0)
      b == c.im[1] * Pow2(c.im[2] - e0)
  IN  a * a + b * b > 4 * Pow2(-e0) * Pow2(-e0)

EscapeDone == fn.op = "escape_time" /\ fn.done

\* C5 as stated: with limit >= 1, every point c with |c| > 2 is reported to
\* diverge at iteration 0.
C5_DivergesAtZero ==
  (EscapeDone /\ ExactNormGt4(fn.c)) => fn.ret = Some(0)

\* C5 amended: escape_time never reports iteration 0; with limit >= 2 it
\* returns Some(1) for every point whose norm_sqr as computed exceeds 4.0,
\* such as 3+0i; with limit = 1 it returns None.
C5_DivergesAtOne ==
  EscapeDone =>
    /\ fn.ret # Some(0)
    /\ fn.limit = 1 => fn.ret = None
    /\ (fn.limit >= 2 /\ FGt(NormSqr(fn.c), Four)) => fn.ret = Some(1)

C5_Witness ==
  /\ EscapeDone
  /\ fn.c = Complex(FromInt(3), FZero)
  /\ fn.limit = 2
  /\ fn.ret = Some(1)

\* A point with |c| > 2 whose computed norm_sqr is 4.0: it is reported at
\* iteration 2, which is why the amended C5 speaks of the computed norm_sqr.
RoundedToFour ==
  /\ EscapeDone
  /\ fn.limit = EscapeLimit
  /\ ExactNormGt4(fn.c)
  /\ ~FGt(NormSqr(fn.c), Four)
  /\ fn.ret = Some(2)

\* C7: the byte stored is 0 for None and otherwise exactly 255 - i, where
\* 0 <= i < 255, so that a diverged pixel's byte lies in 1..255.
C7_ByteOfCount ==
  (EscapeDone /\ fn.limit = EscapeLimit) =>
    IF fn.ret.some
      THEN /\ fn.ret.val \in 0..254
           /\ fn.byte = 255 - fn.ret.val
           /\ fn.byte \in 1..255
      ELSE fn.byte = 0

C7_Witness ==
  /\ EscapeDone
  /\ fn.limit = EscapeLimit
  /\ fn.ret.some
  /\ fn.ret.val > 8
  /\ fn.byte = 255 - fn.ret.val

\* The characters before the first separator and after it.
FirstAt(chars, separator) ==
  CHOOSE i \in 1..Len(chars) :
    chars[i] = separator /\ \A j \in 1..(i - 1) : chars[j] # separator

Contains(chars, separator) == \E i \in 1..Len(chars) : chars[i] = separator

\* What C9 says parse_pair returns.
PairExpected(T, chars, separator) ==
  IF ~Contains(chars, separator) THEN None
  ELSE LET i == FirstAt(chars, separator)
           l == FromStr(T, Encode(SubSeq(chars, 1, i - 1)))
           r == FromStr(T, Encode(SubSeq(chars, i + 1, Len(chars))))
       IN  IF l.ok /\ r.ok THEN Some(<< l.val, r.val >>) ELSE None

\* C9: parse_pair returns Some((l, r)) exactly when s contains the separator
\* and the whole text before its first occurrence and the whole text after
\* it both parse, and None in every other case; parse_complex returns None
\* exactly when parse_pair on ',' does.
C9_PairOrNone ==
  /\ (fn.op = "parse_pair" /\ fn.done)
       => fn.ret = PairExpected("i32", fn.chars, fn.separator)
  /\ (fn.op = "parse_complex" /\ fn.done)
       => (fn.ret = None <=> PairExpected("f64", fn.chars, 44) = None)

\* The same for the separators that are one byte long in UTF-8.
PairOrNoneAscii ==
  /\ (fn.op = "parse_pair" /\ fn.done /\ fn.separator < 128)
       => fn.ret = PairExpected("i32", fn.chars, fn.separator)
  /\ (fn.op = "parse_complex" /\ fn.done)
       => (fn.ret = None <=> PairExpected("f64", fn.chars, 44) = None)

\* parse_pair::<i32>("1,2", ',') = Some((1, 2))
PairParsed ==
  /\ fn.op = "parse_pair"
  /\ fn.done
  /\ fn.chars = << 49, 44, 50 >>
  /\ fn.separator = 44
  /\ fn.ret = Some(<< 1, 2 >>)

\* A single render call that returns leaves the buffer Rendered describes.
SingleRendered ==
  (strategy = "st" /\ pc = "returned")
    => pixels = Rendered(Len(pixels), bounds, viewport.top_left, viewport.bottom_right)

====
